---- MODULE Spec2Model ----
(***************************************************************************)
(* The account-linking flow of the backend: the Steam and Discord verify   *)
(* callbacks registered in setupPassportStrategies, the session principal  *)
(* (serializeUser / deserializeUser) and GET /api/user.                    *)
(*                                                                         *)
(* A verify callback is an async function: every `await` is a point where  *)
(* other callbacks run.  Each callback is therefore a small process whose  *)
(* steps alternate between the store executing the pending operation       *)
(* (findOne, save) and the callback's continuation running up to its next  *)
(* await.                                                                  *)
(***************************************************************************)
EXTENDS Integers, FiniteSets, Sequences

\* ---------------------------------------------------------------- bounds
MaxUsers == 2          \* Identity records the store may hold
MaxTime == 2           \* readings of the clock
MaxLogins == 3         \* verify callbacks the broker invokes in one run

Callbacks == {1, 2}    \* verify callbacks in flight at once
ExternalIds == {1, 2}  \* external ids each provider may present
\* The profile payloads a login may carry, per provider.
Payloads(prov) == IF prov = "steam" THEN {1, 2} ELSE {1}

\* An unset key, field or timestamp, and an unset discordName.
Unset == 0
NoName == << >>

VARIABLES store, clock, cb, seen, logins

vars == <<store, clock, cb, seen, logins>>

\* ------------------------------------------------------- the User model
\* A new User document: every path unset but the schema's defaults
\* (createdAt is set at creation, lastLogin by later logins).
NewUser(now) ==
  [ steamId |-> Unset, discordId |-> Unset,
    steamName |-> Unset, steamAvatar |-> Unset, steamProfileUrl |-> Unset,
    discordName |-> NoName, discordAvatar |-> Unset, discordEmail |-> Unset,
    isFullyAuthenticated |-> FALSE,
    lastLogin |-> Unset, createdAt |-> now ]

Paths == DOMAIN NewUser(Unset)

\* The unique, nullable indexes on steamId and discordId: writing the paths
\* of upd to record id (Unset for an insert) conflicts when another record
\* already holds the same non-null key.
UniqueViolation(st, id, upd) ==
  \E k \in {"steamId", "discordId"} \cap DOMAIN upd :
    /\ upd[k] # Unset
    /\ \E j \in DOMAIN st : j # id /\ st[j][k] = upd[k]

\* The paths save() writes: those assigned a value other than the one read.
Modified(old, doc) == {f \in Paths : doc[f] # old[f]}

\* What save() of a document read as `old` sends: its modified paths only.
Delta(old, doc) == [f \in Modified(old, doc) |-> doc[f]]

\* The record after save() of an existing document.
SaveExisting(old, upd) ==
  [f \in Paths |-> IF f \in DOMAIN upd THEN upd[f] ELSE old[f]]

\* ------------------------------------------------------------- payloads
\* profile.photos[0]?.value || null
FirstPhoto(photos) == IF Len(photos) = 0 THEN Unset ELSE photos[1].value

\* `${profile.username}#${profile.discriminator}`
QualifiedName(username, discriminator) == <<username, discriminator>>

\* The Steam profile the broker hands to the callback (payload 1 has no photo).
SteamProfile(id, v) ==
  [ id |-> id, displayName |-> v,
    photos |-> IF v = 1 THEN << >> ELSE <<[value |-> v]>>,
    profileurl |-> v ]

\* The Discord profile the broker hands to the callback.
DiscordProfile(id, v) ==
  [ id |-> id, username |-> v, discriminator |-> v, avatar |-> v, email |-> v ]

\* ------------------------------------------------------------- queries
\* User.findOne({ steamId }) / User.findOne({ discordId })
FindByKey(st, k, id) == {i \in DOMAIN st : st[i][k] = id}

\* steamId exists and discordId does not
IsMergeCandidate(u) == u.steamId # Unset /\ u.discordId = Unset

\* The candidate query sorted the other way round: the oldest first.
MergeCandidatesOldest(st) ==
  LET C == {i \in DOMAIN st : IsMergeCandidate(st[i])}
  IN {i \in C : \A j \in C : st[j].createdAt >= st[i].createdAt}

\* ... .sort({ createdAt: -1 }): the first of the sorted candidates
MergeCandidates(st) ==
  LET C == {i \in DOMAIN st : IsMergeCandidate(st[i])}
  IN {i \in C : \A j \in C : st[j].createdAt <= st[i].createdAt}

\* ------------------------------------------------------------ callbacks
Idle ==
  [ pc |-> "idle", prov |-> "none", profile |-> [id |-> Unset],
    uid |-> Unset, doc |-> NewUser(Unset), upd |-> [f \in {} |-> Unset],
    path |-> "none", err |-> "none", at |-> Unset,
    res |-> [err |-> "none", user |-> Unset], calls |-> 0 ]

Init ==
  /\ store = << >>
  /\ clock = 1
  /\ cb = [p \in Callbacks |-> Idle]
  /\ logins = 0
  /\ seen = [k \in {"nosession", "stale", "valid"} |-> [status |-> 0, user |-> Unset, fully |-> FALSE]]

\* new Date(): a reading of the clock, never earlier than the last one taken.
Readings == clock..MaxTime

\* The broker invokes a verify callback; the callback issues its first findOne.
Begin(p, prov, id, v) ==
  /\ cb[p].pc \in {"idle", "done"}
  /\ logins < MaxLogins
  /\ logins' = logins + 1
  /\ cb' = [cb EXCEPT ![p] =
       [Idle EXCEPT !.pc = "find1", !.prov = prov,
          !.profile = IF prov = "steam" THEN SteamProfile(id, v) ELSE DiscordProfile(id, v)]]
  /\ UNCHANGED <<store, clock, seen>>

\* The callback's locals once its last store operation has ended: the
\* document's _id and the error are all its continuation still reads.
Ended(c, pc, uid, e) ==
  [Idle EXCEPT !.pc = pc, !.prov = c.prov, !.profile = [id |-> c.profile.id],
               !.path = c.path, !.uid = uid, !.err = e]

\* A catch that swallows the error and carries on as after a save.
ThrowSwallowed(p, e) ==
  cb' = [cb EXCEPT ![p] = Ended(cb[p], "saved", cb[p].uid, e)]

\* A store operation fails: the await throws into the callback's catch.
Throw(p, e) ==
  cb' = [cb EXCEPT ![p] = Ended(cb[p], "caught", Unset, e)]

\* The store answers findOne({ steamId }) or findOne({ discordId }).
Find1(p) ==
  /\ cb[p].pc = "find1"
  /\ LET k == IF cb[p].prov = "steam" THEN "steamId" ELSE "discordId"
         F == FindByKey(store, k, cb[p].profile.id)
     IN \/ /\ F = {}
           /\ cb' = [cb EXCEPT ![p].pc = "got1", ![p].uid = Unset]
        \/ \E i \in F :
             cb' = [cb EXCEPT ![p].pc = "got1", ![p].uid = i, ![p].doc = store[i]]
  /\ UNCHANGED <<store, clock, seen, logins>>

\* The continuation calls save() on its document and awaits it.
CallSave(c, path, now, upd) ==
  [c EXCEPT !.pc = "saving", !.path = path, !.at = now,
            !.doc = NewUser(Unset), !.upd = upd]

\* Steam callback after its findOne: create or update, then save().
SteamCreateDoc(profile, now) ==
  [NewUser(now) EXCEPT !.steamId = profile.id,
                       !.steamName = profile.displayName,
                       !.steamAvatar = FirstPhoto(profile.photos),
                       !.steamProfileUrl = profile.profileurl]

\* An update branch that also resets the link flag.
SteamUpdateDocResetsFlag(doc, profile, now) ==
  [doc EXCEPT !.steamName = profile.displayName,
              !.steamAvatar = FirstPhoto(profile.photos),
              !.lastLogin = now,
              !.isFullyAuthenticated = FALSE]

SteamUpdateDoc(doc, profile, now) ==
  [doc EXCEPT !.steamName = profile.displayName,
              !.steamAvatar = FirstPhoto(profile.photos),
              !.lastLogin = now]

SteamAfterFind(p) ==
  /\ cb[p].pc = "got1" /\ cb[p].prov = "steam"
  /\ \E now \in Readings :
       /\ clock' = now
       /\ cb' = [cb EXCEPT ![p] =
            IF cb[p].uid = Unset
            THEN CallSave(@, "create", now, SteamCreateDoc(@.profile, now))
            ELSE CallSave(@, "existing", now,
                          Delta(@.doc, SteamUpdateDoc(@.doc, @.profile, now)))]
  /\ UNCHANGED <<store, seen, logins>>

\* Discord callback after its first findOne.
DiscordFields(doc, profile) ==
  [doc EXCEPT !.discordName = QualifiedName(profile.username, profile.discriminator),
              !.discordAvatar = profile.avatar,
              !.discordEmail = profile.email]

DiscordUpdateDoc(doc, profile, now) ==
  [DiscordFields(doc, profile) EXCEPT
     !.lastLogin = now,
     !.isFullyAuthenticated = IF doc.steamId # Unset /\ doc.discordId # Unset THEN TRUE ELSE @]

DiscordAfterFind1(p) ==
  /\ cb[p].pc = "got1" /\ cb[p].prov = "discord"
  /\ IF cb[p].uid = Unset
     THEN cb' = [cb EXCEPT ![p].pc = "find2"] /\ UNCHANGED clock
     ELSE \E now \in Readings :
            /\ clock' = now
            /\ cb' = [cb EXCEPT ![p] =
                 CallSave(@, "existing", now,
                          Delta(@.doc, DiscordUpdateDoc(@.doc, @.profile, now)))]
  /\ UNCHANGED <<store, seen, logins>>

\* The store answers the merge-candidate query.
Find2(p) ==
  /\ cb[p].pc = "find2"
  /\ \/ /\ MergeCandidates(store) = {}
        /\ cb' = [cb EXCEPT ![p].pc = "got2", ![p].uid = Unset]
     \/ \E i \in MergeCandidates(store) :
          cb' = [cb EXCEPT ![p].pc = "got2", ![p].uid = i, ![p].doc = store[i]]
  /\ UNCHANGED <<store, clock, seen, logins>>

\* A merge branch that forgets the flag.
MergeDocStaleFlag(doc, profile) ==
  [DiscordFields(doc, profile) EXCEPT !.discordId = profile.id]

\* A merge branch that forgets the key.
MergeDocNoKey(doc, profile) ==
  [DiscordFields(doc, profile) EXCEPT !.isFullyAuthenticated = TRUE]

\* Discord callback after the merge-candidate query: link or create.
MergeDoc(doc, profile) ==
  [DiscordFields(doc, profile) EXCEPT !.discordId = profile.id,
                                      !.isFullyAuthenticated = TRUE]

DiscordCreateDoc(profile, now) ==
  [DiscordFields(NewUser(now), profile) EXCEPT !.discordId = profile.id]

DiscordAfterFind2(p) ==
  /\ cb[p].pc = "got2"
  /\ \E now \in Readings :
       /\ clock' = now
       /\ cb' = [cb EXCEPT ![p] =
            IF cb[p].uid # Unset
            THEN CallSave(@, "merge", now, Delta(@.doc, MergeDoc(@.doc, @.profile)))
            ELSE CallSave(@, "create", now, DiscordCreateDoc(@.profile, now))]
  /\ UNCHANGED <<store, seen, logins>>

\* A save guarded by a conditional update: refused when the record was
\* linked since it was read.
SaveRejectedIfLinked(st, id, upd) ==
  \/ UniqueViolation(st, id, upd)
  \/ "discordId" \in DOMAIN upd /\ st[id].discordId # Unset

\* Whether the store refuses the pending save of an existing document:
\* save() carries no condition on what the record holds by now.
SaveRejected(st, id, upd) == UniqueViolation(st, id, upd)

\* The store executes the pending save(): an insert or an update.
Save(p) ==
  /\ cb[p].pc = "saving"
  /\ IF cb[p].uid = Unset
     THEN IF UniqueViolation(store, Unset, cb[p].upd)
          THEN Throw(p, "DuplicateKey") /\ UNCHANGED store
          ELSE /\ Cardinality(DOMAIN store) < MaxUsers
               /\ store' = Append(store, cb[p].upd)
               /\ cb' = [cb EXCEPT ![p] = Ended(cb[p], "saved", Len(store) + 1, "none")]
     ELSE IF SaveRejected(store, cb[p].uid, cb[p].upd)
          THEN Throw(p, "DuplicateKey") /\ UNCHANGED store
          ELSE /\ store' = [store EXCEPT ![cb[p].uid] = SaveExisting(@, cb[p].upd)]
               /\ cb' = [cb EXCEPT ![p] = Ended(cb[p], "saved", cb[p].uid, "none")]
  /\ UNCHANGED <<clock, seen, logins>>

\* Any pending store operation may fail instead.
StoreFails(p) ==
  /\ cb[p].pc \in {"find1", "find2", "saving"}
  /\ Throw(p, "PersistenceError")
  /\ UNCHANGED <<store, clock, seen, logins>>

\* return done(null, user)
Succeeded(uid) == [err |-> "none", user |-> uid]

\* A catch that reports nothing.
FailedSilently(e) == [err |-> "none", user |-> Unset]

\* catch (error) { return done(error, null) }
Failed(e) == [err |-> e, user |-> Unset]

Done(p) ==
  /\ cb[p].pc \in {"saved", "caught"}
  /\ cb' = [cb EXCEPT ![p].pc = "done", ![p].calls = @ + 1,
                      ![p].err = "none",
                      ![p].res = IF cb[p].pc = "saved" THEN Succeeded(cb[p].uid)
                                 ELSE Failed(cb[p].err)]
  /\ UNCHANGED <<store, clock, seen, logins>>

\* ------------------------------------------------- session and /api/user
NoSession == -1

\* passport.serializeUser: the durable identifier kept in the session.
serializeUser(uid) == uid

\* passport.deserializeUser: done(null, user), user being null when findById
\* finds nothing; done(error, null) when findById fails.
deserializeUser(st, id, fails) ==
  IF fails THEN [err |-> "PersistenceError", user |-> Unset]
  ELSE [err |-> "none", user |-> IF id \in DOMAIN st THEN id ELSE Unset]

\* GET /api/user for the request's req.user.
ApiUser(st, user) ==
  IF user = Unset
  THEN [status |-> 401, user |-> Unset, fully |-> FALSE]
  ELSE [status |-> 200, user |-> user, fully |-> st[user].isFullyAuthenticated]

\* The error-handling middleware.
ServerError == [status |-> 500, user |-> Unset, fully |-> FALSE]

\* A request through passport.session() to GET /api/user: without a session
\* req.user stays unset; with one, req.user is what deserializeUser yields.
Respond(st, sid, fails) ==
  IF sid = NoSession THEN ApiUser(st, Unset)
  ELSE IF deserializeUser(st, sid, fails).err # "none" THEN ServerError
  ELSE ApiUser(st, deserializeUser(st, sid, fails).user)

SessionKind(st, sid) ==
  IF sid = NoSession THEN "nosession"
  ELSE IF sid \in DOMAIN st THEN "valid" ELSE "stale"

\* Sessions a request may carry: none, or the identifier serialized for a
\* principal, whose Identity may since be gone from the store.
SessionIds == {NoSession} \cup {serializeUser(i) : i \in 1..(MaxUsers + 1)}

GetApiUser(sid, fails) ==
  /\ seen' = [seen EXCEPT ![SessionKind(store, sid)] = Respond(store, sid, fails)]
  /\ UNCHANGED <<store, clock, cb, logins>>

\* ------------------------------------------------------------------ spec
\* The authentication flow: verify callbacks interleaving at their awaits.
Next ==
  \/ \E p \in Callbacks, prov \in {"steam", "discord"}, id \in ExternalIds :
       \E v \in Payloads(prov) :
       Begin(p, prov, id, v)
  \/ \E p \in Callbacks : Find1(p)
  \/ \E p \in Callbacks : SteamAfterFind(p)
  \/ \E p \in Callbacks : DiscordAfterFind1(p)
  \/ \E p \in Callbacks : Find2(p)
  \/ \E p \in Callbacks : DiscordAfterFind2(p)
  \/ \E p \in Callbacks : Save(p)
  \/ \E p \in Callbacks : StoreFails(p)
  \/ \E p \in Callbacks : Done(p)

Spec == Init /\ [][Next]_vars

\* One browser: its logins one after the other, and its requests to /api/user.
NextApi ==
  \/ \E prov \in {"steam", "discord"}, id \in ExternalIds :
       \E v \in Payloads(prov) :
       Begin(1, prov, id, v)
  \/ Find1(1)
  \/ SteamAfterFind(1)
  \/ DiscordAfterFind1(1)
  \/ Find2(1)
  \/ DiscordAfterFind2(1)
  \/ Save(1)
  \/ StoreFails(1)
  \/ Done(1)
  \/ \E sid \in SessionIds, fails \in BOOLEAN : GetApiUser(sid, fails)

SpecApi == Init /\ [][NextApi]_vars

\* ---------------------------------------------------------------- claims
BothKeys(u) == u.steamId # Unset /\ u.discordId # Unset

\* The store executes callback p's save and the save succeeds.
Lands(p) == cb[p].pc = "saving" /\ cb'[p].pc = "saved"

LandsOn(p, prov, path) ==
  Lands(p) /\ cb[p].prov = prov /\ cb[p].path = path

\* Every record but record i is left as it was, and none is added.
OnlyChanges(i) ==
  /\ Len(store') = Len(store)
  /\ \A j \in DOMAIN store : j # i => store'[j] = store[j]

UniqueKey(st, k) ==
  \A i, j \in DOMAIN st : (i # j /\ st[i][k] # Unset) => st[i][k] # st[j][k]

\* C1: in every state, whatever the interleaving of Steam and Discord
\* callbacks, an Identity has isFullyAuthenticated exactly when both its
\* steamId and its discordId are set.
C1_FlagIffBothKeys ==
  \A i \in DOMAIN store : store[i].isFullyAuthenticated = BothKeys(store[i])

C1_Witness ==
  \E i, j \in DOMAIN store :
    /\ BothKeys(store[i]) /\ store[i].isFullyAuthenticated
    /\ ~BothKeys(store[j]) /\ ~store[j].isFullyAuthenticated

\* C2: no step leaves two records with the same non-null steamId or the same
\* non-null discordId; a save that would write a duplicate key is refused by
\* the index, leaves the store as it was, and the callback then calls
\* done(error, null).
C2_UniqueKeys ==
  [][ /\ UniqueKey(store', "steamId")
      /\ UniqueKey(store', "discordId")
      /\ \A p \in Callbacks :
           /\ ( /\ cb[p].pc = "saving"
                /\ UniqueViolation(store, cb[p].uid, cb[p].upd)
                /\ cb'[p] # cb[p] )
              => (store' = store /\ cb'[p].pc = "caught" /\ cb'[p].err # "none")
           /\ (cb[p].pc = "caught" /\ cb'[p].pc = "done")
              => ( /\ cb'[p].res.err = cb[p].err
                   /\ cb'[p].res.err # "none"
                   /\ cb'[p].res.user = Unset )
    ]_vars

C2_Witness ==
  \E p \in Callbacks : cb[p].pc = "done" /\ cb[p].res.err = "DuplicateKey"

C4_NewestCandidate ==
  [][ \A p \in Callbacks :
        /\ (cb[p].pc = "find2" /\ cb'[p].pc = "got2" /\ cb'[p].uid # Unset)
           => ( /\ IsMergeCandidate(store[cb'[p].uid])
                /\ \A j \in DOMAIN store :
                     IsMergeCandidate(store[j])
                       => store[j].createdAt <= store[cb'[p].uid].createdAt )
        /\ (cb[p].pc = "find2" /\ cb'[p].pc = "got2" /\ cb'[p].uid = Unset)
           => \A j \in DOMAIN store : ~IsMergeCandidate(store[j])
        /\ LandsOn(p, "discord", "merge")
           => ( /\ OnlyChanges(cb[p].uid)
                /\ \A j \in DOMAIN store :
                     (j # cb[p].uid /\ IsMergeCandidate(store[j]))
                       => (store'[j].discordId = Unset /\ ~store'[j].isFullyAuthenticated) )
    ]_vars

C4_Witness ==
  \E p \in Callbacks, j \in DOMAIN store :
    /\ cb[p].pc = "saved" /\ cb[p].path = "merge"
    /\ j # cb[p].uid
    /\ IsMergeCandidate(store[j])
    /\ store[j].createdAt < store[cb[p].uid].createdAt
    /\ store[cb[p].uid].discordId = cb[p].profile.id

\* The paths a Steam login of a known Identity must leave alone.
SteamFrame ==
  {"steamId", "discordId", "discordName", "discordAvatar", "discordEmail",
   "isFullyAuthenticated", "createdAt"}

\* C5 as claimed: when the save of a Steam login of a known Identity succeeds,
\* no record is added, the Identity's lastLogin is the callback's clock
\* reading and not earlier than the value it replaces, its discordId, Discord
\* fields and isFullyAuthenticated are as before, and no other record changes.
C5_AsClaimed ==
  [][ \A p \in Callbacks :
        LandsOn(p, "steam", "existing")
          => ( /\ OnlyChanges(cb[p].uid)
               /\ store'[cb[p].uid].lastLogin = cb[p].at
               /\ store'[cb[p].uid].lastLogin >= store[cb[p].uid].lastLogin
               /\ \A f \in SteamFrame : store'[cb[p].uid][f] = store[cb[p].uid][f] )
    ]_vars

\* C5 amended: the callback's clock reading is never earlier than the
\* lastLogin it read at lookup; when its save succeeds no record is added,
\* lastLogin is written with that reading (not written when the reading
\* equals the value read), discordId, the Discord fields and
\* isFullyAuthenticated are as before, and no other record changes.
C5_SteamRepeatLogin ==
  [][ \A p \in Callbacks :
        /\ ( /\ cb[p].pc = "got1" /\ cb[p].prov = "steam" /\ cb[p].uid # Unset
             /\ cb'[p].pc = "saving" )
           => ( /\ cb'[p].at >= cb[p].doc.lastLogin
                /\ cb'[p].path = "existing"
                /\ ("lastLogin" \in DOMAIN cb'[p].upd) = (cb'[p].at # cb[p].doc.lastLogin) )
        /\ LandsOn(p, "steam", "existing")
           => ( /\ OnlyChanges(cb[p].uid)
                /\ store'[cb[p].uid].lastLogin =
                     IF "lastLogin" \in DOMAIN cb[p].upd THEN cb[p].at
                     ELSE store[cb[p].uid].lastLogin
                /\ \A f \in SteamFrame : store'[cb[p].uid][f] = store[cb[p].uid][f] )
    ]_vars

C5_Witness ==
  \E p \in Callbacks :
    /\ cb[p].pc = "saved" /\ cb[p].prov = "steam" /\ cb[p].path = "existing"
    /\ store[cb[p].uid].lastLogin # Unset
    /\ BothKeys(store[cb[p].uid])

\* C6: when a store operation of a callback fails (a lookup, a save, a
\* unique-key conflict) the store is left as it was and the callback goes to
\* its catch; from there its only step is done(error, null), its one call of
\* done, and it issues no further store operation.
C6_FailureReported ==
  [][ \A p \in Callbacks :
        /\ (cb[p].err = "none" /\ cb'[p].err # "none")
           => ( /\ cb[p].pc \in {"find1", "find2", "saving"}
                /\ cb'[p].pc = "caught"
                /\ store' = store )
        /\ (cb[p].pc = "caught" /\ cb'[p] # cb[p])
           => ( /\ cb'[p].pc = "done"
                /\ cb'[p].res = [err |-> cb[p].err, user |-> Unset]
                /\ cb[p].calls = 0 /\ cb'[p].calls = 1
                /\ store' = store )
        /\ (cb[p].pc = "done" /\ cb'[p] # cb[p])
           => (cb'[p].pc = "find1" /\ cb'[p].calls = 0)
    ]_vars

C6_Witness ==
  \E p \in Callbacks :
    /\ cb[p].pc = "done" /\ cb[p].calls = 1
    /\ cb[p].res = [err |-> "PersistenceError", user |-> Unset]

\* C7: a request whose session holds an identifier that resolves to no
\* Identity is never answered as a request without a session is.
C7_StaleSessionDistinct ==
  (seen["stale"].status # 0 /\ seen["nosession"].status # 0)
    => seen["stale"] # seen["nosession"]

\* C8: when the save of a login that resolved to an Identity already in the
\* store succeeds (matched by its key, or picked as merge candidate), the
\* Identity's lastLogin is the callback's clock reading.
C8_LastLoginOnEveryLogin ==
  [][ \A p \in Callbacks :
        (Lands(p) /\ cb[p].path \in {"existing", "merge"})
          => store'[cb[p].uid].lastLogin = cb[p].at
    ]_vars

\* The profile fields a login's payload carries for its provider.
PayloadFields(prov, profile) ==
  IF prov = "steam"
  THEN [steamName |-> profile.displayName,
        steamAvatar |-> FirstPhoto(profile.photos),
        steamProfileUrl |-> profile.profileurl]
  ELSE [discordName |-> QualifiedName(profile.username, profile.discriminator),
        discordAvatar |-> profile.avatar,
        discordEmail |-> profile.email]

\* C9: when a login's save succeeds, the Identity's profile fields of the
\* login's provider all equal the payload's, and a login of a known key adds
\* no record.
C9_ProfileFieldsFollowPayload ==
  [][ \A p \in Callbacks :
        Lands(p)
          => ( /\ \A f \in DOMAIN PayloadFields(cb[p].prov, cb[p].profile) :
                    store'[cb'[p].uid][f] = PayloadFields(cb[p].prov, cb[p].profile)[f]
               /\ cb[p].path = "existing" => Len(store') = Len(store) )
    ]_vars

\* C10: the save of the merge branch is unguarded: it is refused for a
\* duplicate key only when another record holds the login's discordId, never
\* because the candidate was linked since it was read; when it succeeds the
\* candidate holds the login's discordId, and a discordId another login had
\* linked to the candidate meanwhile is then on no record.
C10_UnguardedMerge ==
  [][ \A p \in Callbacks :
        (cb[p].pc = "saving" /\ cb[p].path = "merge")
          => /\ (cb'[p].pc = "caught" /\ cb'[p].err = "DuplicateKey")
                => \E j \in DOMAIN store :
                     j # cb[p].uid /\ store[j].discordId = cb[p].profile.id
             /\ cb'[p].pc = "saved"
                => ( /\ store'[cb[p].uid].discordId = cb[p].profile.id
                     /\ store[cb[p].uid].discordId \notin {Unset, cb[p].profile.id}
                        => \A j \in DOMAIN store' :
                             store'[j].discordId # store[cb[p].uid].discordId )
    ]_vars

\* Two Discord logins with different unseen ids both merged into the same
\* candidate and both reported success; one id alone is in the store.
C10_Witness ==
  \E p, q \in Callbacks :
    /\ p # q
    /\ cb[p].pc = "done" /\ cb[p].path = "merge" /\ cb[p].res.err = "none"
    /\ cb[q].pc = "done" /\ cb[q].path = "merge" /\ cb[q].res.err = "none"
    /\ cb[p].res.user = cb[q].res.user
    /\ cb[p].profile.id # cb[q].profile.id
    /\ store[cb[q].res.user].discordId = cb[q].profile.id
    /\ \A j \in DOMAIN store : store[j].discordId # cb[p].profile.id

====
